---- MODULE Spec2Model ----
(***************************************************************************)
(* The frame loop of cvsys (main.py): detection filtering, per-frame class *)
(* counts, centroid tracking, per-object bound eligibility, named counters,*)
(* target-condition and activity-condition evaluation, and shutdown.       *)
(*                                                                         *)
(* An optional Python value (None or a value) is a set with at most one    *)
(* element: {} is None, {v} is the value v.  A dict is a function whose    *)
(* DOMAIN is its key set.                                                  *)
(***************************************************************************)
EXTENDS Integers, Sequences, FiniteSets, TLC

VARIABLES
    program_data,      \* the loaded configuration (main.py:53)
    counters,          \* dict counter name -> set of object ids (main.py:60)
    tracker,           \* the CentroidTracker's state (main.py:78)
    frame1, frame2,    \* the two reference frames (main.py:80-84)
    frame,             \* the frame of the current cycle (main.py:90)
    activity,          \* what get_detected_activity returned (main.py:41)
    captured,          \* frames read from the video source so far
    detections,        \* what net.forward() returned (main.py:105)
    rects,             \* this frame's filtered detections (main.py:106)
    class_counter,     \* dict class -> count for this frame (main.py:109)
    todo,              \* ids of objects.items() still to be visited (main.py:151)
    pc,                \* position of the loop
    printed,           \* what print(counters) wrote at shutdown (main.py:223)
    frame_count,       \* class_counter as it was when the tracker was updated
    log,               \* the objects visited in this frame, in order
    tc_calls,          \* handle_targets_conditions calls in this frame
    tc_seen,           \* the counters its last call in this frame was given
    act_queries,       \* get_detected_activity calls in this frame
    act_calls,         \* handle_activity calls in this frame
    boundary_counters  \* counters as they were when the last cycle completed

vars == <<program_data, counters, tracker, frame1, frame2, frame, activity,
          captured, detections, rects, class_counter, todo, pc, printed,
          frame_count, log, tc_calls, tc_seen, act_queries, act_calls,
          boundary_counters>>

-----------------------------------------------------------------------------
(* Bounds of the model *)

\* detector outputs per frame
MaxDet == 2
\* object ids the tracker may issue
MaxId == 3
\* frames are numbered by capture order up to this number
MaxFrameNo == 4

\* frames without a match after which the tracker drops an object
MaxDisappeared == 1

-----------------------------------------------------------------------------
(* Values *)

None == {}
Some(v) == {v}
TheValue(opt) == CHOOSE v \in opt : TRUE

\* class labels: a subset of CLASSES
CLASSES == {"person", "car"}

\* the detector's confidence, in percent; args["confidence"] defaults to 0.2
ConfidenceThreshold == 20

\* bounding boxes <<x1, y1, x2, y2>>: two nearly coincident ones and a far one
Boxes == { <<0, 0, 2, 2>>, <<1, 0, 3, 2>>, <<8, 8, 10, 10>> }

Target(mn, mx, ctr) == [min |-> mn, max |-> mx, counter |-> ctr]

\* the configurations a run may be started with
Configs ==
    { [targets |-> [c \in {"person"} |-> Target(Some(1), None, Some("people"))],
       targets_conditions |-> Some("tc"), activities |-> Some("act")],
      [targets |-> [c \in {"person"} |-> Target(Some(2), Some(4), Some("people"))],
       targets_conditions |-> Some("tc"), activities |-> None],
      [targets |-> [c \in {"person", "car"} |->
                       IF c = "person" THEN Target(None, None, Some("people"))
                                       ELSE Target(None, Some(1), None)],
       targets_conditions |-> None, activities |-> None],
      [targets |-> [c \in {"person", "car"} |->
                       IF c = "person" THEN Target(None, None, None)
                                       ELSE Target(Some(1), Some(1), Some("cars"))],
       targets_conditions |-> Some("tc"), activities |-> None] }

\* dict.get(key): None when the key is absent
Get(dict, key) == IF key \in DOMAIN dict THEN Some(dict[key]) ELSE None

\* the dict with dict[key] = value, the key added when absent
Put(dict, key, value) ==
    [k \in DOMAIN dict \cup {key} |-> IF k = key THEN value ELSE dict[k]]

EmptyDict == [k \in {} |-> 0]

Min2(a, b) == IF a <= b THEN a ELSE b

\* the elements of a set of integers as an increasing sequence
RECURSIVE Ascending(_)
Ascending(S) ==
    IF S = {} THEN <<>>
    ELSE LET m == CHOOSE x \in S : \A y \in S : x <= y
         IN <<m>> \o Ascending(S \ {m})

-----------------------------------------------------------------------------
(* The detection filter of the frame loop *)

\* what the network reports for one frame: up to MaxDet detections
\* (confidence 90 passes the threshold; 20, at the threshold, does not)
Detection ==
    [class_name : {"person"}, confidence : {90}, box : Boxes]
        \cup { [class_name |-> "car", confidence |-> 90, box |-> <<0, 0, 2, 2>>],
               [class_name |-> "person", confidence |-> 20, box |-> <<0, 0, 2, 2>>] }

RECURSIVE SeqsUpTo(_, _)
SeqsUpTo(S, n) ==
    IF n = 0 THEN { <<>> }
    ELSE LET shorter == SeqsUpTo(S, n - 1)
         IN shorter \cup { Append(q, x) : q \in { r \in shorter : Len(r) = n - 1 }, x \in S }

DetectorOutputs == SeqsUpTo(Detection, MaxDet)

targets == DOMAIN program_data.targets

\* the class test left out
M_PassesFilters_AnyClass(d, tgts) == d.confidence > ConfidenceThreshold

\* a detection is kept when it is confident enough and of a declared class
PassesFilters(d, tgts) ==
    /\ d.confidence > ConfidenceThreshold
    /\ d.class_name \in tgts

\* the rect appended for a kept detection: its box and its class name
Rect(d) == [box |-> d.box, target_name |-> d.class_name]

\* the loop over the detections: rects and class_counter after it
RECURSIVE FilterLoop(_, _, _, _)
FilterLoop(ds, tgts, rs, cc) ==
    IF ds = <<>> THEN [rects |-> rs, class_counter |-> cc]
    ELSE LET d == Head(ds)
         IN IF PassesFilters(d, tgts)
            THEN FilterLoop(Tail(ds), tgts, Append(rs, Rect(d)),
                            Put(cc, d.class_name,
                                (IF d.class_name \in DOMAIN cc
                                 THEN cc[d.class_name] ELSE 0) + 1))
            ELSE FilterLoop(Tail(ds), tgts, rs, cc)

-----------------------------------------------------------------------------
(* CentroidTracker *)

Centroid(box) == << (box[1] + box[3]) \div 2, (box[2] + box[4]) \div 2 >>

\* squared Euclidean distance: orders pairs as the distance does
Dist2(p, q) == (p[1] - q[1]) * (p[1] - q[1]) + (p[2] - q[2]) * (p[2] - q[2])

NewTracker == [next_object_id |-> 0,
               objects |-> EmptyDict,
               disappeared |-> EmptyDict]

\* the tracker after registering the detections rs[cols[1]], rs[cols[2]], ...
RECURSIVE Register(_, _, _)
Register(t, rs, cols) ==
    IF cols = <<>> THEN t
    ELSE LET r == rs[Head(cols)]
             id == t.next_object_id
         IN Register([next_object_id |-> id + 1,
                      objects |-> Put(t.objects, id,
                                      [centroid |-> Centroid(r.box), rect |-> r]),
                      disappeared |-> Put(t.disappeared, id, 0)],
                     rs, Tail(cols))

\* each row (tracked id) paired with its smallest distance to a detection
RowKeys(t, rs) ==
    { << (LET ds == { Dist2(t.objects[id].centroid, Centroid(rs[c].box)) :
                      c \in 1..Len(rs) }
          IN CHOOSE d \in ds : \A e \in ds : d <= e), id >> :
      id \in DOMAIN t.objects }

\* the rows by increasing smallest distance, equal ones by increasing row
RECURSIVE SortKeys(_)
SortKeys(keys) ==
    IF keys = {} THEN <<>>
    ELSE LET first == CHOOSE k \in keys :
                         \A j \in keys :
                             k[1] < j[1] \/ (k[1] = j[1] /\ k[2] <= j[2])
         IN <<first[2]>> \o SortKeys(keys \ {first})

RowOrder(t, rs) == SortKeys(RowKeys(t, rs))

\* a column is handed out again after a row took it
M_Consume_Nothing(usedCols, col) == usedCols

\* a column taken by a row is marked consumed
Consume(usedCols, col) == usedCols \cup {col}

\* a row takes the column farthest from it
M_Prefer_Farthest(Dc, c, Dd, d) == Dc > Dd \/ (Dc = Dd /\ c <= d)

\* column c at distance Dc goes before column d at distance Dd: the nearer
\* one, of equally near ones the first
Prefer(Dc, c, Dd, d) == Dc < Dd \/ (Dc = Dd /\ c <= d)

\* greedy assignment: each row, in order, takes its nearest column still free
RECURSIVE Greedy(_, _, _, _, _)
Greedy(order, t, rs, usedCols, matching) ==
    IF order = <<>> THEN matching
    ELSE LET id == Head(order)
             free == (1..Len(rs)) \ usedCols
             D(c) == Dist2(t.objects[id].centroid, Centroid(rs[c].box))
         IN IF free = {}
            THEN Greedy(Tail(order), t, rs, usedCols, matching)
            ELSE LET col == CHOOSE c \in free :
                                \A d \in free : Prefer(D(c), c, D(d), d)
                 IN Greedy(Tail(order), t, rs, Consume(usedCols, col),
                           Put(matching, id, col))

\* the dict of tracked ids -> matched column chosen by update
Matching(t, rs) ==
    IF Len(rs) = 0 THEN EmptyDict
    ELSE Greedy(RowOrder(t, rs), t, rs, {}, EmptyDict)

\* update's bookkeeping once the matching m is chosen: matched objects take
\* the detection, unmatched ones age and are dropped past MaxDisappeared,
\* unmatched detections are registered
ApplyMatching(t, rs, m) ==
    LET matched == DOMAIN m
        usedCols == { m[id] : id \in matched }
        live == { id \in DOMAIN t.objects :
                     id \in matched \/ t.disappeared[id] + 1 <= MaxDisappeared }
        kept == [next_object_id |-> t.next_object_id,
                 objects |-> [id \in live |->
                     IF id \in matched
                     THEN [centroid |-> Centroid(rs[m[id]].box), rect |-> rs[m[id]]]
                     ELSE t.objects[id]],
                 disappeared |-> [id \in live |->
                     IF id \in matched THEN 0 ELSE t.disappeared[id] + 1]]
    IN Register(kept, rs, Ascending((1..Len(rs)) \ usedCols))

\* centroid_tracker.update(rects): the tracker after the call
Update(t, rs) ==
    IF DOMAIN t.objects = {}
    THEN Register(t, rs, Ascending(1..Len(rs)))
    ELSE CHOOSE after \in { ApplyMatching(t, rs, m) : m \in { Matching(t, rs) } } : TRUE

-----------------------------------------------------------------------------
(* The collaborators main.py calls *)

\* handle_properties(frame, properties, counters, object_data): the counters
\* after the call; the id joins the named counter when a name is configured
HandleProperties(ctrs, object_data) ==
    IF object_data.counter_name = None THEN ctrs
    ELSE LET name == TheValue(object_data.counter_name)
         IN Put(ctrs, name,
                (IF name \in DOMAIN ctrs THEN ctrs[name] ELSE {})
                    \cup {object_data.object_id})

\* the activity signals get_detected_activity may return
ActivitySignals == {None, Some("motion")}

-----------------------------------------------------------------------------
(* The pieces of the per-object loop body *)

\* a default of 0 given to get, so that None never comes back
M_DetectedObjects_DefaultZero(cc, target_name) ==
    IF target_name \in DOMAIN cc THEN Some(cc[target_name]) ELSE Some(0)

\* a count of zero taken for None, as `if not detected_objects` would
M_DetectedObjects_ZeroIsNone(cc, target_name) ==
    IF target_name \in DOMAIN cc /\ cc[target_name] > 0
    THEN Some(cc[target_name]) ELSE None

\* detected_objects = class_counter.get(target_name)
DetectedObjects(cc, target_name) == Get(cc, target_name)

\* > written for >= in the branch with only a minimum
M_Eligible_StrictMin(minimum, maximum, detected_objects) ==
    IF minimum # None /\ maximum # None
    THEN TheValue(minimum) <= detected_objects /\ detected_objects <= TheValue(maximum)
    ELSE IF minimum # None /\ maximum = None
    THEN detected_objects > TheValue(minimum)
    ELSE IF minimum = None /\ maximum # None
    THEN detected_objects <= TheValue(maximum)
    ELSE TRUE

\* the bound checks that guard handle_properties
Eligible(minimum, maximum, detected_objects) ==
    IF minimum # None /\ maximum # None
    THEN TheValue(minimum) <= detected_objects /\ detected_objects <= TheValue(maximum)
    ELSE IF minimum # None /\ maximum = None
    THEN detected_objects >= TheValue(minimum)
    ELSE IF minimum = None /\ maximum # None
    THEN detected_objects <= TheValue(maximum)
    ELSE TRUE

\* the counter name looked up under a key the target does not have
M_ObjectData_NoCounterName(object_id, entry, target) ==
    [bounding_box |-> entry.rect.box,
     object_id |-> object_id,
     centroid |-> entry.centroid,
     counter_name |-> None]

\* the record handed to handle_properties
ObjectData(object_id, entry, target) ==
    [bounding_box |-> entry.rect.box,
     object_id |-> object_id,
     centroid |-> entry.centroid,
     counter_name |-> target.counter]

\* check_targets_conditions: the calls of handle_targets_conditions it makes
TargetsConditionsCalls(targets_conditions) ==
    IF targets_conditions # None THEN 1 ELSE 0

\* check_activities: whether the detector is asked
ActivityQueried(activities) == activities # None

\* the test of the detector's answer left out
M_ActivityHandled_AnySignal(activities, detected) == activities # None

\* check_activities: whether handle_activity runs
ActivityHandled(activities, detected) ==
    activities # None /\ detected # None

-----------------------------------------------------------------------------
(* The run *)

\* lines 53-84: the state when the loop is entered
Start(configs) ==
    /\ program_data \in configs
    /\ counters = EmptyDict
    /\ tracker = NewTracker
    /\ frame1 = 0
    /\ frame2 = 1
    /\ captured = 2
    /\ frame = None
    /\ activity = None
    /\ rects = <<>>
    /\ class_counter = EmptyDict
    /\ todo = <<>>
    /\ pc = "read"
    /\ printed = None
    /\ frame_count = EmptyDict
    /\ log = <<>>
    /\ tc_calls = 0
    /\ tc_seen = None
    /\ detections = <<>>
    /\ act_queries = 0
    /\ act_calls = 0
    /\ boundary_counters = EmptyDict

Init == Start(Configs)

\* lines 90-95: read the frame, then check_activities
ReadFrame ==
    /\ pc = "read"
    /\ frame' = Some(captured)
    /\ captured' = Min2(captured + 1, MaxFrameNo)
    /\ \E signal \in ActivitySignals :
          /\ activity' = IF ActivityQueried(program_data.activities)
                         THEN signal ELSE None
          /\ act_queries' = IF ActivityQueried(program_data.activities) THEN 1 ELSE 0
          /\ act_calls' = IF ActivityHandled(program_data.activities, activity')
                          THEN 1 ELSE 0
    /\ pc' = "detect"
    /\ UNCHANGED <<program_data, detections, tc_seen, counters, tracker, frame1, frame2, rects,
                   class_counter, todo, printed, frame_count, log, tc_calls,
                   boundary_counters>>

\* the frame's count of a class starts from the size of the class's counter
M_InitialClassCounter_Cumulative ==
    [c \in { t \in targets : \E name \in program_data.targets[t].counter :
                                 name \in DOMAIN counters }
        |-> Cardinality(counters[TheValue(program_data.targets[c].counter)])]

\* line 109: class_counter = {} at the top of every cycle
InitialClassCounter == EmptyDict

\* a tracker built anew in every cycle
M_centroid_tracker_PerFrame == NewTracker

\* line 78: the one tracker, built before the loop is entered
centroid_tracker == tracker

\* lines 97-147: run the network, filter its detections, update the tracker
DetectBody ==
    /\ pc = "detect"
    /\ \E kept \in { FilterLoop(raw, targets, <<>>, InitialClassCounter) :
                          raw \in DetectorOutputs } :
          \E after \in { Update(centroid_tracker, kept.rects) } :
             /\ after.next_object_id <= MaxId
             /\ rects' = kept.rects
             /\ class_counter' = kept.class_counter
             /\ frame_count' = kept.class_counter
             /\ tracker' = after
             /\ todo' = Ascending(DOMAIN after.objects)
    /\ pc' = "objects"
    /\ UNCHANGED <<program_data, tc_seen, frame1, frame2, frame, activity,
                   captured, printed, log, tc_calls, act_queries, act_calls,
                   boundary_counters>>

\* counters created anew in every cycle, as class_counter is
M_DetectAndTrack_ResetCounters ==
    DetectBody /\ counters' = EmptyDict /\ UNCHANGED detections

\* the network's raw answer is dead once filtered: it is not kept
DetectAndTrack == DetectBody /\ UNCHANGED <<counters, detections>>

\* line 105: the same step, the network's raw answer kept for inspection
Forwarded ==
    detections' \in { raw \in DetectorOutputs :
                        FilterLoop(raw, targets, <<>>, InitialClassCounter)
                           = [rects |-> rects', class_counter |-> frame_count'] }

DetectAndTrackRaw == DetectBody /\ UNCHANGED counters /\ Forwarded

\* lines 151-198: one turn of the loop over objects.items()
ProcessObject ==
    /\ pc = "objects"
    /\ todo # <<>>
    /\ LET object_id == Head(todo)
           entry == tracker.objects[object_id]
           target_name == entry.rect.target_name
           target == program_data.targets[target_name]
           detected_objects == DetectedObjects(class_counter, target_name)
       IN IF detected_objects = None
          THEN /\ log' = Append(log, [object_id |-> object_id,
                                      target_name |-> target_name,
                                      detected_objects |-> None,
                                      dispatched |-> FALSE])
               /\ UNCHANGED <<class_counter, tc_calls, tc_seen, counters>>
          ELSE LET n == TheValue(detected_objects)
                   ok == Eligible(target.min, target.max, n)
               IN /\ class_counter' = [class_counter EXCEPT ![target_name] = @ - 1]
                  /\ tc_calls' = tc_calls
                        + TargetsConditionsCalls(program_data.targets_conditions)
                  /\ tc_seen' = IF TargetsConditionsCalls(
                                       program_data.targets_conditions) = 1
                                THEN Some(counters) ELSE tc_seen
                  /\ counters' = IF ok
                                 THEN HandleProperties(counters,
                                          ObjectData(object_id, entry, target))
                                 ELSE counters
                  /\ log' = Append(log, [object_id |-> object_id,
                                         target_name |-> target_name,
                                         detected_objects |-> detected_objects,
                                         dispatched |-> ok])
    /\ todo' = Tail(todo)
    /\ UNCHANGED <<program_data, detections, tracker, frame1, frame2, frame, activity,
                   captured, rects, pc, printed, frame_count, act_queries,
                   act_calls, boundary_counters>>

\* lines 200-206: the loop over the objects is over; show the frame, poll a key
ShowFrame ==
    /\ pc = "objects"
    /\ todo = <<>>
    /\ pc' = "waitkey"
    /\ boundary_counters' = counters
    /\ UNCHANGED <<program_data, detections, tc_seen, counters, tracker, frame1, frame2, frame,
                   activity, captured, rects, class_counter, todo, printed,
                   frame_count, log, tc_calls, act_queries, act_calls>>

\* the key looked at inside the loop over the objects as well
M_AtKeyCheck_InsideObjectLoop == pc = "waitkey" \/ (pc = "objects" /\ log # <<>>)

\* where the loop looks at the key: after the frame has been shown
AtKeyCheck == pc = "waitkey"

\* lines 209-213: another key, or none: the next cycle starts; the locals of
\* the finished cycle are dead, and the per-frame records start afresh
KeyOther ==
    /\ AtKeyCheck
    /\ pc' = "read"
    /\ rects' = <<>>
    /\ class_counter' = EmptyDict
    /\ frame_count' = EmptyDict
    /\ todo' = <<>>
    /\ log' = <<>>
    /\ tc_calls' = 0
    /\ tc_seen' = None
    /\ detections' = <<>>
    /\ activity' = None
    /\ act_queries' = 0
    /\ act_calls' = 0
    /\ UNCHANGED <<program_data, counters, tracker, frame1, frame2, frame,
                   captured, printed, boundary_counters>>

\* lines 209-210: q was pressed: break
KeyQ ==
    /\ AtKeyCheck
    /\ pc' = "cleanup"
    /\ UNCHANGED <<program_data, detections, tc_seen, counters, tracker, frame1, frame2, frame,
                   activity, captured, rects, class_counter, todo, printed,
                   frame_count, log, tc_calls, act_queries, act_calls,
                   boundary_counters>>

\* lines 215-223: stop the stream and print the counters
Shutdown ==
    /\ pc = "cleanup"
    /\ printed' = Some(counters)
    /\ pc' = "done"
    /\ UNCHANGED <<program_data, detections, tc_seen, counters, tracker, frame1, frame2, frame,
                   activity, captured, rects, class_counter, todo, frame_count,
                   log, tc_calls, act_queries, act_calls, boundary_counters>>

Next ==
    \/ ReadFrame
    \/ DetectAndTrack
    \/ ProcessObject
    \/ ShowFrame
    \/ KeyOther
    \/ KeyQ
    \/ Shutdown

Spec == Init /\ [][Next]_vars

\* the loop keeps running while no q is pressed; a key press is not forced
\* the same run over the first frames of the source, the network's raw
\* answer on record
KeyOtherRaw == KeyOther /\ captured < MaxFrameNo

NextRaw ==
    \/ ReadFrame
    \/ DetectAndTrackRaw
    \/ ProcessObject
    \/ ShowFrame
    \/ KeyOtherRaw
    \/ KeyQ
    \/ Shutdown

SpecRaw == Init /\ [][NextRaw]_vars

FairSpec ==
    /\ Init /\ [][Next]_vars
    /\ WF_vars(ReadFrame) /\ WF_vars(DetectAndTrack) /\ WF_vars(ProcessObject)
    /\ WF_vars(ShowFrame) /\ WF_vars(KeyOther \/ KeyQ) /\ WF_vars(Shutdown)

-----------------------------------------------------------------------------
(* What the frame records say *)

\* the loop over the objects of this frame is over
EndOfFrame == pc = "waitkey"

\* the ids handed to handle_properties in this frame
Dispatched == { log[i].object_id : i \in { j \in 1..Len(log) : log[j].dispatched } }

\* the detections of class c that passed the filters in this frame
FrameCount(c) == IF c \in DOMAIN frame_count THEN frame_count[c] ELSE 0

\* the bound rule of a target for a count n
WithinBounds(target, n) ==
    /\ target.min # None => n >= TheValue(target.min)
    /\ target.max # None => n <= TheValue(target.max)

HasBounds(target) == target.min # None \/ target.max # None

-----------------------------------------------------------------------------
(* C1: every object visited in a frame is dispatched exactly when the number *)
(* n of detections of its class in this frame is within its target's bounds, *)
(* all objects of one class being judged against the same n.                 *)
C1_EligibleIffFrameCountWithinBounds ==
    \A i \in 1..Len(log) :
        LET target == program_data.targets[log[i].target_name]
        IN HasBounds(target) =>
              (log[i].dispatched
                  <=> WithinBounds(target, FrameCount(log[i].target_name)))

(* C2: with a target-condition tree configured, it is evaluated exactly once *)
(* in every frame cycle, whatever the number of tracked objects.             *)
C2_TargetConditionsOncePerFrame ==
    (EndOfFrame /\ program_data.targets_conditions # None) => tc_calls = 1

\* every name and every member of counter dict a is kept in counter dict b
Keeps(a, b) == \A c \in DOMAIN a : c \in DOMAIN b /\ a[c] \subseteq b[c]

(* C3: counters only grow: in every step each counter name stays in the     *)
(* mapping and each member stays a member, also once the tracker has        *)
(* dropped the object; what is printed at shutdown holds them all.          *)
C3_CountersOnlyGrow ==
    [][ /\ Keeps(counters, counters')
        /\ printed' # None => Keeps(counters, TheValue(printed')) ]_vars

\* a counted id whose object the tracker has dropped, at shutdown
C3_Witness ==
    /\ pc = "done"
    /\ \E c \in DOMAIN counters :
          \E x \in counters[c] : x \notin DOMAIN tracker.objects

\* the counter name configured for the class of log entry e
CounterOf(e) == program_data.targets[e.target_name].counter

(* C4: a dispatched object whose target names a counter is a member of that *)
(* counter from then on; dispatching a member again leaves the counters as  *)
(* they were; a dispatched object whose target names no counter changes     *)
(* no counter.                                                              *)
C4_DispatchedIdJoinsCounter ==
    [][ /\ \A i \in 1..Len(log') :
              (log'[i].dispatched /\ CounterOf(log'[i]) # None) =>
                  /\ TheValue(CounterOf(log'[i])) \in DOMAIN counters'
                  /\ log'[i].object_id \in counters'[TheValue(CounterOf(log'[i]))]
        /\ (pc = "objects" /\ Len(log') = Len(log) + 1) =>
              LET e == log'[Len(log')]
              IN /\ (e.dispatched /\ CounterOf(e) = None) => counters' = counters
                 /\ (/\ e.dispatched /\ CounterOf(e) # None
                     /\ TheValue(CounterOf(e)) \in DOMAIN counters
                     /\ e.object_id \in counters[TheValue(CounterOf(e))])
                        => counters' = counters ]_vars

\* an object counted in an earlier frame is dispatched again, and in the
\* same frame an object whose target names no counter is dispatched
C4_Witness ==
    /\ EndOfFrame
    /\ \E i \in 1..Len(log) :
          /\ log[i].dispatched /\ CounterOf(log[i]) # None
          /\ TheValue(CounterOf(log[i])) \in DOMAIN boundary_counters
          /\ log[i].object_id \in boundary_counters[TheValue(CounterOf(log[i]))]
          /\ \E j \in 1..Len(log) :
                log[j].dispatched /\ CounterOf(log[j]) = None

\* the live objects of targets declared without min and without max
Unbounded == { id \in DOMAIN tracker.objects :
                 ~HasBounds(program_data.targets[tracker.objects[id].rect.target_name]) }

(* C5 as claimed: an object of a target without bounds is dispatched in     *)
(* every frame in which it is live, also with no detection of its class.    *)
C5_UnboundedAlwaysDispatched ==
    EndOfFrame => \A id \in Unbounded : id \in Dispatched

(* C5 as amended: an object of a target without bounds is dispatched in a   *)
(* frame exactly when its class has at least one detection in that frame,   *)
(* whatever the count it is judged against.                                 *)
C5_UnboundedDispatchedIffClassDetected ==
    EndOfFrame =>
        \A id \in Unbounded :
            id \in Dispatched
                <=> FrameCount(tracker.objects[id].rect.target_name) >= 1

\* an unmatched object of such a target is dispatched, judged against 0
C5_Witness ==
    /\ EndOfFrame
    /\ \E i \in 1..Len(log) :
          /\ log[i].object_id \in Unbounded
          /\ tracker.disappeared[log[i].object_id] > 0
          /\ log[i].detected_objects = Some(0)
          /\ log[i].dispatched

\* the tracker after a frame without detections: every object one tick
\* older, those past MaxDisappeared dropped, none registered
Aged(t) ==
    LET live == { id \in DOMAIN t.objects : t.disappeared[id] + 1 <= MaxDisappeared }
    IN [next_object_id |-> t.next_object_id,
        objects |-> [id \in live |-> t.objects[id]],
        disappeared |-> [id \in live |-> t.disappeared[id] + 1]]

(* C6: a frame in which no detection passes the filters only ages the       *)
(* tracked objects; no object is dispatched, no counter changes, and the    *)
(* loop goes on to the key check and the next frame.                        *)
C6_EmptyFrameAdvancesTrivially ==
    [][ /\ (pc = "detect" /\ rects' = <<>>) => tracker' = Aged(tracker)
        /\ (pc = "objects" /\ rects = <<>>) =>
              /\ counters' = counters
              /\ Dispatched' = {}
              /\ tracker' = tracker
              /\ pc' \in {"objects", "waitkey"}
        /\ (pc = "waitkey" /\ rects = <<>>) => pc' \in {"read", "cleanup"} ]_vars

\* a frame without detections has been gone through with an object alive
C6_Witness ==
    /\ EndOfFrame
    /\ rects = <<>>
    /\ Len(log) >= 1
    /\ \E id \in DOMAIN tracker.objects : tracker.disappeared[id] = 1

-----------------------------------------------------------------------------
(* The end-to-end scenario: one target person with min 1, no max and a      *)
(* counter; every frame holds exactly one person detection, at one of two   *)
(* nearly coincident boxes.                                                 *)

ScenarioConfigs ==
    [targets : { [c \in {"person"} |-> Target(Some(1), None, Some("people"))] },
     targets_conditions : {None, Some("tc")},
     activities : {None, Some("act")}]

NearBoxes == { <<0, 0, 2, 2>>, <<1, 0, 3, 2>> }

ScenarioFrame ==
    /\ Len(rects) = 1
    /\ rects[1].target_name = "person"
    /\ rects[1].box \in NearBoxes

InitE2E == Start(ScenarioConfigs)

DetectAndTrackE2E == DetectAndTrack /\ ScenarioFrame'

NextE2E ==
    \/ ReadFrame
    \/ DetectAndTrackE2E
    \/ ProcessObject
    \/ ShowFrame
    \/ KeyOther
    \/ KeyQ
    \/ Shutdown

SpecE2E == InitE2E /\ [][NextE2E]_vars

(* C7: in the scenario the tracker reports the one object id 0 in every     *)
(* frame, the object is dispatched in every frame, and the counter holds    *)
(* exactly that id at the end of every frame and in what is printed.        *)
C7_EndToEnd ==
    LET name == TheValue(program_data.targets["person"].counter)
    IN /\ pc \in {"waitkey", "cleanup", "done"} =>
             /\ DOMAIN tracker.objects = {0}
             /\ tracker.disappeared[0] = 0
             /\ Dispatched = {0}
             /\ counters = [c \in {name} |-> {0}]
       /\ pc = "done" => printed = Some([c \in {name} |-> {0}])

\* the run was stopped after the third frame, the detection having moved
\* between the two boxes
C7_Witness ==
    /\ pc = "done"
    /\ frame = Some(4)
    /\ tracker.objects[0].rect.box = <<1, 0, 3, 2>>
    /\ printed = Some([c \in {"people"} |-> {0}])

-----------------------------------------------------------------------------
(* C8: the reference pair of the motion detector is refreshed: a cycle that *)
(* compares against the two frames captured before the loop is followed by  *)
(* a cycle that compares against a later pair, unless the loop has been     *)
(* left.                                                                    *)
C8_ReferencePairRefreshed ==
    [](pc = "detect" /\ frame1 = 0 /\ frame2 = 1
         => <>(pc = "done" \/ frame1 # 0 \/ frame2 # 1))

(* C9: handle_activity runs in a frame only when activities are configured  *)
(* and the detector returned a signal; otherwise the activity step calls    *)
(* nothing; in both cases it leaves counters and tracker alone and the      *)
(* cycle goes on to the detection.                                          *)
C9_ActivityOnlyOnSignal ==
    [][ pc = "read" =>
          /\ act_calls' = 1 =>
                (program_data.activities # None /\ activity' # None)
          /\ (program_data.activities = None \/ activity' = None) =>
                act_calls' = 0
          /\ program_data.activities = None => act_queries' = 0
          /\ counters' = counters
          /\ tracker' = tracker
          /\ pc' = "detect" ]_vars

\* activities are configured, the detector was asked and returned no signal
C9_Witness ==
    /\ pc = "detect"
    /\ program_data.activities # None
    /\ act_queries = 1
    /\ activity = None
    /\ act_calls = 0

(* C10: the loop is left only from the key check that ends a cycle, never   *)
(* from inside one, and what is printed at shutdown is the counters as      *)
(* they were when the last cycle completed.                                 *)
C10_StopOnlyBetweenCycles ==
    [][ /\ pc' = "cleanup" => (pc = "waitkey" /\ todo = <<>>)
        /\ pc' = "done" =>
              (pc = "cleanup" /\ printed' = Some(boundary_counters)) ]_vars

\* the run was stopped with something counted
C10_Witness ==
    /\ pc = "done"
    /\ printed # None
    /\ \E c \in DOMAIN TheValue(printed) : TheValue(printed)[c] # {}

-----------------------------------------------------------------------------
(* What the tracker and the filter are held to *)

\* the frame's detection step is over and its records are in place
Filtered == pc \in {"objects", "waitkey", "cleanup", "done"}

\* the counter names the configuration gives its targets
CounterNames ==
    UNION { program_data.targets[c].counter : c \in targets }

(* C11: of what the network returns, exactly the detections with a          *)
(* confidence above the threshold and a declared class become rects, in     *)
(* order; a detection of an undeclared class is left out, adds nothing to   *)
(* the frame's counts, is never tracked, never visited and never counted.   *)
C11_OnlyConfidentDeclaredKept ==
    /\ Filtered =>
          LET kept == SelectSeq(detections,
                         LAMBDA d : /\ d.confidence > ConfidenceThreshold
                                    /\ d.class_name \in DOMAIN program_data.targets)
          IN /\ Len(rects) = Len(kept)
             /\ \A i \in 1..Len(kept) :
                   rects[i] = [box |-> kept[i].box,
                               target_name |-> kept[i].class_name]
             /\ \A c \in CLASSES :
                   FrameCount(c) =
                      Cardinality({ i \in 1..Len(kept) : kept[i].class_name = c })
    /\ DOMAIN frame_count \subseteq DOMAIN program_data.targets
    /\ \A id \in DOMAIN tracker.objects :
          tracker.objects[id].rect.target_name \in DOMAIN program_data.targets
    /\ \A i \in 1..Len(log) : log[i].target_name \in DOMAIN program_data.targets
    /\ DOMAIN counters \subseteq CounterNames

\* a confident detection of an undeclared class came with one that was kept
\* and dispatched
C11_Witness ==
    /\ pc = "waitkey"
    /\ \E i \in 1..Len(detections) :
          /\ detections[i].confidence > ConfidenceThreshold
          /\ detections[i].class_name \notin DOMAIN program_data.targets
    /\ Len(rects) = 1
    /\ Dispatched # {}

(* C12: ids are never reused. In every step the tracker's next_object_id    *)
(* does not go down, the ids that appear are exactly the ones issued in     *)
(* that step (from the old next_object_id up to the new one), every live id *)
(* is below next_object_id, an object leaves the mapping only when it was   *)
(* already unmatched for max_disappeared frames, and none stays beyond that.*)
C12_NoIdReuse ==
    [][ /\ tracker'.next_object_id >= tracker.next_object_id
        /\ DOMAIN tracker'.objects \ DOMAIN tracker.objects
              = tracker.next_object_id .. (tracker'.next_object_id - 1)
        /\ \A id \in DOMAIN tracker'.objects :
              /\ id < tracker'.next_object_id
              /\ tracker'.disappeared[id] <= MaxDisappeared
        /\ \A id \in DOMAIN tracker.objects \ DOMAIN tracker'.objects :
              tracker.disappeared[id] = MaxDisappeared ]_vars

\* id 0 was removed, and the object now seen at the first box carries id 1
C12_Witness ==
    /\ DOMAIN tracker.objects = {1}
    /\ tracker.next_object_id = 2
    /\ tracker.disappeared[1] = 0
    /\ tracker.objects[1].rect.box = <<0, 0, 2, 2>>

\* the objects the last update matched or registered
Fresh == { id \in DOMAIN tracker.objects : tracker.disappeared[id] = 0 }

(* C13: after every tracker update the frame's detections and the objects   *)
(* matched or registered by it correspond one to one: there are as many of  *)
(* these objects as detections, each detection (equal ones counted apart)   *)
(* is held by exactly as many objects as it occurs in the frame, and every  *)
(* such object holds a detection of the frame.                              *)
C13_MatchingOneToOne ==
    Filtered =>
       /\ DOMAIN tracker.disappeared = DOMAIN tracker.objects
       /\ Cardinality(Fresh) = Len(rects)
       /\ \A i \in 1..Len(rects) :
             Cardinality({ id \in Fresh : tracker.objects[id].rect = rects[i] })
                = Cardinality({ j \in 1..Len(rects) : rects[j] = rects[i] })
       /\ \A id \in Fresh :
             \E i \in 1..Len(rects) : rects[i] = tracker.objects[id].rect

\* two tracked objects met one detection: one took it, the other aged
C13_Witness ==
    /\ pc = "objects"
    /\ Len(rects) = 1
    /\ Cardinality(DOMAIN tracker.objects) = 2
    /\ Cardinality(Fresh) = 1
    /\ \E id \in DOMAIN tracker.objects : tracker.disappeared[id] = 1

\* two centroids at most one pixel apart
Near(p, q) == Dist2(p, q) <= 1

\* the ways to pair every tracked object of t with a detection of rs of its
\* own: the detection is near the object, and no other object is nearer to it
OwnPairings(t, rs) ==
    { f \in [DOMAIN t.objects -> 1..Len(rs)] :
        /\ \A a, b \in DOMAIN t.objects : f[a] = f[b] => a = b
        /\ \A id \in DOMAIN t.objects :
              LET here == Centroid(rs[f[id]].box)
              IN /\ Near(t.objects[id].centroid, here)
                 /\ \A other \in DOMAIN t.objects :
                       Dist2(t.objects[other].centroid, here)
                          >= Dist2(t.objects[id].centroid, here) }

(* C14: identity stability. When the tracker holds N objects and the frame  *)
(* brings N detections that pair off with them, each near its own object,   *)
(* the update keeps exactly these N ids, issues no new id, leaves every     *)
(* object with disappeared count 0 and gives each a detection of the frame  *)
(* near the place it was at.                                                *)
C14_IdentityStability ==
    [][ ( /\ pc = "detect"
          /\ pc' = "objects"
          /\ DOMAIN tracker.objects # {}
          /\ Cardinality(DOMAIN tracker.objects) = Len(rects')
          /\ OwnPairings(tracker, rects') # {} )
        => /\ DOMAIN tracker'.objects = DOMAIN tracker.objects
           /\ tracker'.next_object_id = tracker.next_object_id
           /\ \A id \in DOMAIN tracker.objects :
                 /\ tracker'.disappeared[id] = 0
                 /\ Near(tracker.objects[id].centroid,
                         tracker'.objects[id].centroid)
                 /\ \E i \in 1..Len(rects') :
                       rects'[i] = tracker'.objects[id].rect ]_vars

\* two objects counted in an earlier frame were both found again, at two
\* places, and no third id was issued
C14_Witness ==
    /\ pc = "objects"
    /\ DOMAIN tracker.objects = {0, 1}
    /\ tracker.next_object_id = 2
    /\ Fresh = {0, 1}
    /\ Len(rects) = 2
    /\ rects[1].box # rects[2].box
    /\ \E c \in DOMAIN boundary_counters : {0, 1} \subseteq boundary_counters[c]

(* C15: the per-frame count is rebuilt in every frame: when the tracker     *)
(* update is called, the count of every class is the number of rects of     *)
(* that class handed to the tracker in this frame, whatever earlier frames  *)
(* held and whatever the counters hold; the loop over the objects starts    *)
(* from exactly these counts.                                               *)
C15_FrameCountIsThisFramesRects ==
    Filtered =>
       /\ \A c \in CLASSES :
             FrameCount(c) =
                Cardinality({ i \in 1..Len(rects) : rects[i].target_name = c })
       /\ \A c \in DOMAIN frame_count : frame_count[c] >= 1
       /\ (pc = "objects" /\ log = <<>>) => class_counter = frame_count

\* a frame with one detection follows frames that counted two objects
C15_Witness ==
    /\ pc = "objects"
    /\ log = <<>>
    /\ Len(rects) = 1
    /\ FrameCount(rects[1].target_name) = 1
    /\ \E c \in DOMAIN counters : Cardinality(counters[c]) = 2

(* C16 as claimed: every object the loop judges in a frame is judged        *)
(* against a count between 1 and the number of detections of its class in   *)
(* this frame, also when more objects of the class are live than the frame  *)
(* has detections of it.                                                    *)
C16_JudgedCountWithinFrame ==
    \A i \in 1..Len(log) :
       log[i].detected_objects # None =>
          /\ TheValue(log[i].detected_objects) >= 1
          /\ TheValue(log[i].detected_objects) <= FrameCount(log[i].target_name)

(* C17 as claimed: only an object that the frame's tracker update matched   *)
(* with or registered from a detection of this frame is dispatched or takes *)
(* part of the frame's count; an object the update left unmatched           *)
(* (disappeared count above 0) does neither.                                *)
C17_OnlyMatchedObjectsDispatched ==
    \A i \in 1..Len(log) :
       (log[i].dispatched \/ log[i].detected_objects # None) =>
          tracker.disappeared[log[i].object_id] = 0

(* C18 as claimed: when the loop over a frame's objects is over and the     *)
(* frame changed a counter, the target conditions (if configured) have      *)
(* been evaluated in this frame against the counters as they now are.       *)
C18_CounterChangeEvaluatedInFrame ==
    ( /\ pc = "objects"
      /\ todo = <<>>
      /\ program_data.targets_conditions # None
      /\ counters # boundary_counters )
    => tc_seen = Some(counters)

\* the ids that joined counter c in the frame that is being gone through
Joined(c) ==
    counters[c] \ (IF c \in DOMAIN boundary_counters
                   THEN boundary_counters[c] ELSE {})

(* C19 as claimed: every id in a counter was issued by the tracker, and it  *)
(* joined the counter in a frame in which its object was visited with the   *)
(* frame's count of its class within the bounds of its target, under the    *)
(* counter name configured for that class.                                  *)
C19_CountedIdsWereEligible ==
    pc = "objects" =>
       \A c \in DOMAIN counters :
          /\ \A x \in counters[c] : x < tracker.next_object_id
          /\ \A x \in Joined(c) :
                \E i \in 1..Len(log) :
                   /\ log[i].object_id = x
                   /\ log[i].dispatched
                   /\ CounterOf(log[i]) = Some(c)
                   /\ WithinBounds(program_data.targets[log[i].target_name],
                                   FrameCount(log[i].target_name))

====
